---- MODULE Spec2Model ----
(***************************************************************************)
(* Model of the code-quality analysis engine (lib/codeAnalysis:            *)
(* analyzeCode, getAllFiles, calculateBasicComplexity,                     *)
(* calculateBasicMaintainability, calculateOverallScore) and of the score  *)
(* helpers of app/api/analyze/route.ts, over a small file system.          *)
(*                                                                         *)
(* File names and extensions are sequences of one-character strings, so    *)
(* that extname and startsWith are computed and not assumed.  A file text  *)
(* is a sequence of lexical tokens; the regular expressions of the metric  *)
(* functions are modelled by what they match among those tokens.  Per-file *)
(* metric values are exact rationals [num, den] (the code computes them in *)
(* floating point).                                                        *)
(*                                                                         *)
(* Specifications: Spec and SpecTree (analyzeCode over projects that vary  *)
(* the file texts, the tree), SpecFixtures (the sample repository of the   *)
(* tests), SpecMetrics (the per-file metrics over every short text),       *)
(* SpecRoute (the scoring of route.ts over analysis results) and SpecPost  *)
(* (the POST handler of route.ts, two requests interleaved at its awaits). *)
(***************************************************************************)
EXTENDS Integers, Sequences, FiniteSets, TLC

VARIABLES
    disk,        \* the file system below the project root: path -> node
    outcome,     \* what analyzeCode did on this disk, NoRun before it ran
    fileText,    \* the text of one file under edit
    fileMetric,  \* the metrics extracted from fileText
    analysisResults,  \* an analysis result handed to the scoring of route.ts
    report,      \* what route.ts derives from analysisResults
    requests,    \* the POST requests: where each stands and what it holds
    projects,    \* the rows of the projects table, by id
    dirs,        \* the directories tmp/analysis-<projectId>, by project id
    polling      \* the dashboard's status polling loop

fsVars == <<disk, outcome>>

metricVars == <<fileText, fileMetric>>

routeVars == <<analysisResults, report>>

postVars == <<requests, projects, dirs>>

pollVars == <<polling>>

vars == <<fsVars, metricVars, routeVars, postVars, pollVars>>

\* What the file-system and analyzeCode steps leave alone.
notFsVars == <<metricVars, routeVars, postVars, pollVars>>

\* ------------------------------------------------------------------ bounds

\* Largest number of entries (files, directories, others) below the root,
\* in the runs that vary the file texts and in those that vary the tree.
MaxNodes == 4
MaxTreeNodes == 3

\* Largest number of tokens of the text under edit.
MaxTextLen == 4

\* Largest number of maintainability details of a scored result.
MaxDetails == 4

\* Largest number of status reads of the polling loop followed.
MaxReads == 32

\* ------------------------------------------------------------------- names

\* Character codes (ASCII) of the characters the names use.
Code(ch) ==
    CASE ch = "-" -> 45
      [] ch = "." -> 46
      [] ch = "/" -> 47
      [] ch = "a" -> 97
      [] ch = "b" -> 98
      [] ch = "c" -> 99
      [] ch = "d" -> 100
      [] ch = "j" -> 106
      [] ch = "m" -> 109
      [] ch = "s" -> 115
      [] ch = "t" -> 116
      [] ch = "x" -> 120

\* String.prototype.startsWith for a one-character prefix.
startsWith(name, ch) == Len(name) >= 1 /\ name[1] = ch

\* Index of the last "." of a name, 0 when it has none.
RECURSIVE lastDot(_, _)
lastDot(name, i) ==
    IF i = 0 THEN 0
    ELSE IF name[i] = "." THEN i
    ELSE lastDot(name, i - 1)

\* path.extname of an entry name: from the last "." to the end; empty when
\* there is no "." or the only "." is the first character.
extname(name) ==
    LET k == lastDot(name, Len(name)) IN
    IF k <= 1 THEN <<>> ELSE SubSeq(name, k, Len(name))

\* The extensions analyzeCode passes to getAllFiles.
Extensions ==
    { <<".", "t", "s">>, <<".", "t", "s", "x">>,
      <<".", "j", "s">>, <<".", "j", "s", "x">> }

\* Names the file-system actions draw from: a plain name, a dot name (a
\* hidden directory, or a hidden file without extension), one name for each
\* recognised extension (one of them on a hidden file), and an extension
\* that only starts like a recognised one.
PlainName == <<"a">>
DotName == <<".", "t", "s">>
TsName == <<"a", ".", "t", "s">>
TsxName == <<"b", ".", "t", "s", "x">>
JsName == <<".", "c", ".", "j", "s">>
JsxName == <<"a", "-", "b", ".", "j", "s", "x">>
TscName == <<"a", ".", "t", "s", "c">>

\* ------------------------------------------------------------------- texts

\* Tokens of a file text.  "if(", "for(", "while(", "switch(" are what
\* /if\s*\(/, /for\s*\(/, /while\s*\(/, /switch\s*\(/ match; "//" is what
\* /\/\// matches; "/*" and "*/" open and close what /\/\*[\s\S]*?\*\//
\* matches; "fn(" is what /function\s+\w+\s*\(/ matches; "\n" is the line
\* separator; "w" is any other source text; "prose" is text that is not
\* source code and "U+FFFD" the replacement character readFileSync yields
\* for bytes that are not valid UTF-8: none of the expressions match them.
Tokens ==
    { "if(", "for(", "while(", "switch(", "//", "/*", "*/", "fn(", "\n",
      "w", "prose", "U+FFFD" }

\* Number of occurrences of token t in text.
RECURSIVE count(_, _)
count(text, t) ==
    IF text = <<>> THEN 0
    ELSE (IF Head(text) = t THEN 1 ELSE 0) + count(Tail(text), t)

\* content.split('\n').length
lineCount(text) == count(text, "\n") + 1

\* Number of matches of /\/\*[\s\S]*?\*\//g: each "/*" is closed by the first
\* "*/" after it, and the scan goes on after that "*/".
RECURSIVE blockComments(_, _)
blockComments(text, open) ==
    IF text = <<>> THEN 0
    ELSE IF ~open /\ Head(text) = "/*" THEN blockComments(Tail(text), TRUE)
    ELSE IF open /\ Head(text) = "*/" THEN 1 + blockComments(Tail(text), FALSE)
    ELSE blockComments(Tail(text), open)

hundred == [num |-> 100, den |-> 1]

\* (n / lines) * 100 without the Math.min: the cap forgotten.
uncapped(n, lines) == [num |-> n * 100, den |-> lines]

\* Math.min(100, (n / lines) * 100) as an exact rational.
capped(n, lines) ==
    IF n * 100 >= 100 * lines
    THEN [num |-> 100, den |-> 1]
    ELSE [num |-> n * 100, den |-> lines]

\* calculateBasicComplexity without the base of 1.
complexityWithoutBase(content) ==
    capped(count(content, "if(") + count(content, "for(") + count(content, "while(")
           + count(content, "switch("), lineCount(content))

\* calculateBasicComplexity that does not count switch.
complexityWithoutSwitch(content) ==
    capped(1 + count(content, "if(") + count(content, "for(")
           + count(content, "while("), lineCount(content))

calculateBasicComplexity(content) ==
    LET ifCount == count(content, "if(")
        forCount == count(content, "for(")
        whileCount == count(content, "while(")
        switchCount == count(content, "switch(")
        complexity == 1 + ifCount + forCount + whileCount + switchCount
    IN capped(complexity, lineCount(content))

calculateBasicMaintainability(content) ==
    LET commentCount == count(content, "//") + blockComments(content, FALSE)
        functionCount == count(content, "fn(")
    IN capped(commentCount + functionCount, lineCount(content))

\* scores.reduce((a, b) => a + b, 0) as an exact rational.
RECURSIVE sum(_)
sum(scores) ==
    IF scores = <<>> THEN [num |-> 0, den |-> 1]
    ELSE LET a == Head(scores)
             b == sum(Tail(scores))
         IN [num |-> a.num * b.den + b.num * a.den, den |-> a.den * b.den]

\* Math.floor in the place of Math.round.
floor(num, den) == num \div den

\* Math.round of the non-negative rational num / den: halves round up.
round(num, den) == (2 * num + den) \div (2 * den)

\* calculateOverallScore of codeAnalysis: the rounded mean, 0 for no scores.
calculateOverallScore(scores) ==
    IF Len(scores) = 0 THEN 0
    ELSE LET s == sum(scores) IN round(s.num, s.den * Len(scores))

\* --------------------------------------------------------------- the disk

\* The disk maps the path of every existing node (a sequence of names below
\* the project root, <<>> for the root itself) to
\*   [kind, readable, text, entries]
\* kind is "dir", "file" or "other" (a link, a socket: neither isFile() nor
\* isDirectory()); readable is whether readdirSync / readFileSync succeed;
\* text is a file's content; entries is a directory's names in the order
\* readdirSync lists them.
Root == <<>>

NoDisk == <<>>

dirNode(readable, entries) ==
    [kind |-> "dir", readable |-> readable, text |-> <<>>, entries |-> entries]

fileNode(readable, text) ==
    [kind |-> "file", readable |-> readable, text |-> text, entries |-> <<>>]

otherNode ==
    [kind |-> "other", readable |-> TRUE, text |-> <<>>, entries |-> <<>>]

exists(d, path) == path \in DOMAIN d

isDirectory(d, path) == exists(d, path) /\ d[path].kind = "dir"

isFile(d, path) == exists(d, path) /\ d[path].kind = "file"

\* path.join(dir, entry.name)
join(dir, name) == Append(dir, name)

\* entry.isDirectory() alone: hidden directories are walked too.
recursesIntoHidden(d, fullPath, name) == isDirectory(d, fullPath)

\* entry.isDirectory() && !entry.name.startsWith('.')
recursesInto(d, fullPath, name) ==
    isDirectory(d, fullPath) /\ ~startsWith(name, ".")

\* extensions.includes(extname(entry.name)) alone: any kind of entry.
pushesAnyKind(d, fullPath, name, extensions) == extname(name) \in extensions

\* entry.isFile() && extensions.includes(extname(entry.name))
pushes(d, fullPath, name, extensions) ==
    isFile(d, fullPath) /\ extname(name) \in extensions

\* readdirSync(dir) throws for a missing directory alone.
readdirThrowsWhenMissing(d, dir) == ~isDirectory(d, dir)

\* readdirSync(dir) throws: the directory is missing or cannot be read.
readdirThrows(d, dir) == ~isDirectory(d, dir) \/ ~d[dir].readable

\* getAllFiles: when readdirSync throws, the catch leaves the list empty;
\* otherwise the entries are walked in listing order, a directory not named
\* ".*" is recursed into in place, and a regular file with a recognised
\* extension is pushed.
RECURSIVE getAllFiles(_, _, _)
RECURSIVE walkEntries(_, _, _, _)
walkEntries(d, dir, extensions, i) ==
    IF i > Len(d[dir].entries) THEN <<>>
    ELSE LET name == d[dir].entries[i]
             fullPath == join(dir, name)
             found ==
                 IF recursesInto(d, fullPath, name)
                 THEN getAllFiles(d, fullPath, extensions)
                 ELSE IF pushes(d, fullPath, name, extensions)
                 THEN <<fullPath>>
                 ELSE <<>>
         IN found \o walkEntries(d, dir, extensions, i + 1)

getAllFiles(d, dir, extensions) ==
    IF readdirThrows(d, dir) THEN <<>>
    ELSE walkEntries(d, dir, extensions, 1)

\* ------------------------------------------------------------ analyzeCode

\* files.map(file => ...): one record per discovered file.
RECURSIVE fileAnalysesOf(_, _)
fileAnalysesOf(d, files) ==
    IF files = <<>> THEN <<>>
    ELSE LET file == Head(files)
             content == d[file].text
         IN <<[file |-> file,
               complexity |-> calculateBasicComplexity(content),
               maintainability |-> calculateBasicMaintainability(content),
               lines |-> lineCount(content)]>>
            \o fileAnalysesOf(d, Tail(files))

\* resultOf with a duplication that counts the files whose metrics repeat
\* those of an earlier file.
resultCountingCopies(fileAnalyses) ==
    LET n == Len(fileAnalyses)
        complexityScore ==
            calculateOverallScore([i \in 1..n |-> fileAnalyses[i].complexity])
        maintainabilityScore ==
            calculateOverallScore([i \in 1..n |-> fileAnalyses[i].maintainability])
        copies ==
            {i \in 1..n : \E j \in 1..(i - 1) :
                /\ fileAnalyses[j].complexity = fileAnalyses[i].complexity
                /\ fileAnalyses[j].lines = fileAnalyses[i].lines}
    IN [complexity |->
            [score |-> complexityScore,
             details |-> [i \in 1..n |->
                 [file |-> fileAnalyses[i].file,
                  complexity |-> fileAnalyses[i].complexity,
                  maintainability |-> fileAnalyses[i].maintainability]]],
        duplication |->
            [percentage |->
                IF n = 0 THEN 0 ELSE (100 * Cardinality(copies)) \div n,
             instances |-> <<>>],
        maintainability |->
            [score |-> maintainabilityScore,
             details |-> [i \in 1..n |->
                 [file |-> fileAnalyses[i].file,
                  score |-> fileAnalyses[i].maintainability,
                  issues |-> <<>>]]]]

\* resultOf with an issue listed for every file whose maintainability is
\* below 65.
resultListingIssues(fileAnalyses) ==
    LET n == Len(fileAnalyses)
        complexityScore ==
            calculateOverallScore([i \in 1..n |-> fileAnalyses[i].complexity])
        maintainabilityScore ==
            calculateOverallScore([i \in 1..n |-> fileAnalyses[i].maintainability])
    IN [complexity |->
            [score |-> complexityScore,
             details |-> [i \in 1..n |->
                 [file |-> fileAnalyses[i].file,
                  complexity |-> fileAnalyses[i].complexity,
                  maintainability |-> fileAnalyses[i].maintainability]]],
        duplication |-> [percentage |-> 0, instances |-> <<>>],
        maintainability |->
            [score |-> maintainabilityScore,
             details |-> [i \in 1..n |->
                 [file |-> fileAnalyses[i].file,
                  score |-> fileAnalyses[i].maintainability,
                  issues |->
                      IF fileAnalyses[i].maintainability.num
                            < 65 * fileAnalyses[i].maintainability.den
                      THEN <<"Low maintainability">> ELSE <<>>]]]]

\* The record analyzeCode returns.
resultOf(fileAnalyses) ==
    LET n == Len(fileAnalyses)
        complexityScore ==
            calculateOverallScore([i \in 1..n |-> fileAnalyses[i].complexity])
        maintainabilityScore ==
            calculateOverallScore([i \in 1..n |-> fileAnalyses[i].maintainability])
    IN [complexity |->
            [score |-> complexityScore,
             details |-> [i \in 1..n |->
                 [file |-> fileAnalyses[i].file,
                  complexity |-> fileAnalyses[i].complexity,
                  maintainability |-> fileAnalyses[i].maintainability]]],
        duplication |-> [percentage |-> 0, instances |-> <<>>],
        maintainability |->
            [score |-> maintainabilityScore,
             details |-> [i \in 1..n |->
                 [file |-> fileAnalyses[i].file,
                  score |-> fileAnalyses[i].maintainability,
                  issues |-> <<>>]]]]

\* What a call of analyzeCode(projectPath) does on disk d: readFileSync
\* throws on the first discovered file that cannot be read, the catch logs
\* and rethrows, and the promise rejects; otherwise it resolves with the
\* result record.
analyzeCode(d, projectPath) ==
    LET files == getAllFiles(d, projectPath, Extensions) IN
    IF \E i \in 1..Len(files) : ~d[files[i]].readable
    THEN [kind |-> "rejected", error |-> "EACCES"]
    ELSE [kind |-> "resolved", value |-> resultOf(fileAnalysesOf(d, files))]

\* ------------------------------------------------------- scoring, route.ts

\* calculateOverallScore of route.ts with the duplication percentage not
\* inverted.
overallScoreUninverted(results, sumBelowHalf) ==
    round(3 * results.complexity.score + 4 * results.maintainability.score
          + 3 * results.duplication.percentage, 10)

\* calculateOverallScore of route.ts: Math.round(complexity.score * 0.3 +
\* maintainability.score * 0.4 + (100 - duplication.percentage) * 0.3). The
\* weights have no exact double, so when the exact sum is a half the double
\* sum may lie just below it and round down; sumBelowHalf says whether it
\* does. Away from a half the double and the exact sum round alike.
calculateOverallScoreRoute(results, sumBelowHalf) ==
    LET complexityScore == results.complexity.score
        maintainabilityScore == results.maintainability.score
        duplicationScore == 100 - results.duplication.percentage
        tenths == 3 * complexityScore + 4 * maintainabilityScore
                  + 3 * duplicationScore
    IN IF tenths % 10 = 5 /\ sumBelowHalf
       THEN tenths \div 10
       ELSE round(tenths, 10)

\* getHealthStatus with score > 80 in the place of score >= 80.
healthStatusExclusive(score) ==
    IF score > 80 THEN "Excellent"
    ELSE IF score >= 70 THEN "Good"
    ELSE IF score >= 50 THEN "Fair"
    ELSE "Needs Improvement"

getHealthStatus(score) ==
    IF score >= 80 THEN "Excellent"
    ELSE IF score >= 70 THEN "Good"
    ELSE IF score >= 50 THEN "Fair"
    ELSE "Needs Improvement"

RECURSIVE countCriticalIssues(_)
countCriticalIssues(details) ==
    IF details = <<>> THEN 0
    ELSE (IF Len(Head(details).issues) > 0 THEN 1 ELSE 0)
            + countCriticalIssues(Tail(details))

ComplexityAdvice ==
    "Consider breaking down complex functions into smaller, more manageable pieces"

MaintainabilityAdvice ==
    "Focus on improving code maintainability through better documentation and simpler code structures"

DuplicationAdvice ==
    "Reduce code duplication by extracting common functionality into shared components or utilities"

\* `Improve maintainability in ${detail.file}: ${detail.issues[0]}`
fileAdvice(detail) ==
    <<"Improve maintainability in", detail.file, detail.issues[1]>>

hasIssues(detail) == Len(detail.issues) > 0

\* .slice(0, n)
slice(seq, n) == SubSeq(seq, 1, IF Len(seq) < n THEN Len(seq) ELSE n)

\* generateRecommendations without the .slice(0, 3).
recommendationsUnsliced(results) ==
    LET flagged == SelectSeq(results.maintainability.details, hasIssues)
    IN (IF results.complexity.score > 70 THEN <<ComplexityAdvice>> ELSE <<>>)
       \o (IF results.maintainability.score < 65
           THEN <<MaintainabilityAdvice>> ELSE <<>>)
       \o (IF results.duplication.percentage > 15
           THEN <<DuplicationAdvice>> ELSE <<>>)
       \o [i \in 1..Len(flagged) |-> fileAdvice(flagged[i])]

generateRecommendations(results) ==
    LET top == slice(SelectSeq(results.maintainability.details, hasIssues), 3)
    IN (IF results.complexity.score > 70 THEN <<ComplexityAdvice>> ELSE <<>>)
       \o (IF results.maintainability.score < 65
           THEN <<MaintainabilityAdvice>> ELSE <<>>)
       \o (IF results.duplication.percentage > 15
           THEN <<DuplicationAdvice>> ELSE <<>>)
       \o [i \in 1..Len(top) |-> fileAdvice(top[i])]

\* What analyzeRepository adds to the analysis results before it stores
\* them: the overall score, the summary's health status and count of
\* critical issues, and the recommendations.
reportOf(results, sumBelowHalf) ==
    LET overallScore == calculateOverallScoreRoute(results, sumBelowHalf)
    IN [overallScore |-> overallScore,
        criticalIssues |-> countCriticalIssues(results.maintainability.details),
        healthStatus |-> getHealthStatus(overallScore),
        recommendations |-> generateRecommendations(results)]

\* ------------------------------------------------------------ sample texts

\* simple.ts of the test fixtures: one function, four lines, no branch.
SimpleText == <<"fn(", "\n", "w", "\n", "w", "\n", "w">>

\* duplicate.ts and duplicate2.ts: the same three-line helper body.
HelperText == <<"fn(", "\n", "w", "\n", "w">>

\* Two branches, two line comments and a block comment on two lines.
BranchText == <<"if(", "for(", "\n", "//", "/*", "*/", "//">>

\* invalid.ts of the test fixtures: 'this is not valid typescript'.
ProseText == <<"prose">>

\* A file whose bytes are not valid UTF-8, as readFileSync decodes it.
UndecodableText == <<"U+FFFD", "\n", "U+FFFD">>

\* Whether a text is source code at all.
isValidSource(text) == count(text, "prose") = 0 /\ count(text, "U+FFFD") = 0

Texts == {SimpleText, HelperText, BranchText, ProseText, UndecodableText}

\* What a new file holds: a readable text, or nothing that can be read.
contents(texts) ==
    {[readable |-> TRUE, text |-> t] : t \in texts}
        \cup {[readable |-> FALSE, text |-> <<>>]}

\* ------------------------------------------------------- POST of route.ts

\* The requests in flight at a time, and the rows of the projects table.
Requests == {"r1", "r2"}

ProjectIds == {"123", "456"}

Undefined == "undefined"

\* What request.json() yields: a throw, null, or an object.
jsonBody(kind, projectId, repoUrl, provider, accessToken) ==
    [json |-> kind, projectId |-> projectId, repoUrl |-> repoUrl,
     provider |-> provider, accessToken |-> accessToken]

InvalidJson == jsonBody("invalid", Undefined, Undefined, Undefined, Undefined)

NullBody == jsonBody("null", Undefined, Undefined, Undefined, Undefined)

object(projectId, repoUrl, provider, accessToken) ==
    jsonBody("object", projectId, repoUrl, provider, accessToken)

RepoUrl == "https://github.com/test/repo.git"

\* The bodies tried: no JSON, null, {}, objects that lack some fields, and
\* objects with all four.
Bodies ==
    {InvalidJson, NullBody,
     object(Undefined, Undefined, Undefined, Undefined),
     object(Undefined, RepoUrl, "github", "test-token")}
    \cup {object(id, Undefined, Undefined, Undefined) : id \in ProjectIds}
    \cup {object(id, RepoUrl, "github", Undefined) : id \in ProjectIds}
    \cup {object(id, RepoUrl, "github", "test-token") : id \in ProjectIds}

\* The Authorization headers tried: none, a Bearer token, another scheme.
NoHeader == <<>>

Headers == {NoHeader, <<"Bearer ", "t">>, <<"token ", "t">>}

\* authHeader?.startsWith('Bearer ')
startsWithBearer(authHeader) ==
    authHeader # NoHeader /\ Head(authHeader) = "Bearer "

Fields == {"projectId", "repoUrl", "provider", "accessToken"}

\* Object.entries({...}).filter(([_, value]) => !value).map(([key]) => key)
missingFields(body) == {f \in Fields : body[f] = Undefined}

\* NextResponse.json(...): the HTTP status, and the error and status
\* properties of the body.
NoResponse == [status |-> 0, error |-> Undefined, bodyStatus |-> Undefined]

errorResponse(status, error) ==
    [status |-> status, error |-> error, bodyStatus |-> Undefined]

completedResponse ==
    [status |-> 200, error |-> Undefined, bodyStatus |-> "completed"]

IdleRequest ==
    [pc |-> "idle", body |-> InvalidJson, authorization |-> NoHeader,
     done |-> {}, updates |-> 0, message |-> Undefined,
     after |-> NoResponse, response |-> NoResponse]

NoDir == [exists |-> FALSE, madeBy |-> Undefined, git |-> FALSE]

\* ------------------------------------------ polling loop of the dashboard

maxAttempts == 30

\* let attempts = 0, before the first test of the loop condition; reads
\* counts the status reads made, marked says that the catch block wrote
\* status 'failed'.
PollingStarts ==
    [pc |-> "select", attempts |-> 0, reads |-> 0, seen |-> Undefined,
     thrown |-> Undefined, marked |-> FALSE]

\* What a status read can yield: an error, no row, or the row's status.
Reads == {"error", "no row", "pending", "analyzing", "completed", "failed"}

\* ------------------------------------------------------------------ actions

NoRun == [kind |-> "none"]

\* The three values the map callback of analyzeCode computes from a text.
metricsOf(content) ==
    [complexity |-> calculateBasicComplexity(content),
     maintainability |-> calculateBasicMaintainability(content),
     lines |-> lineCount(content)]

Init ==
    /\ disk = NoDisk
    /\ outcome = NoRun
    /\ fileText = <<>>
    /\ fileMetric = metricsOf(<<>>)
    /\ analysisResults = resultOf(<<>>)
    /\ report = reportOf(resultOf(<<>>), FALSE)
    /\ requests = [r \in Requests |-> IdleRequest]
    /\ projects = [id \in ProjectIds |->
            [status |-> "pending", error_message |-> Undefined,
             analysis_results |-> FALSE]]
    /\ dirs = [id \in ProjectIds |-> NoDir]
    /\ polling = PollingStarts

\* Number of nodes below the root.
nodeCount(d) == Cardinality(DOMAIN d \ {Root})

\* Disk d with a new node at join(dir, name), listed last in dir.
create(d, dir, name, node) ==
    [p \in DOMAIN d \cup {join(dir, name)} |->
        IF p = join(dir, name) THEN node
        ELSE IF p = dir THEN [d[dir] EXCEPT !.entries = Append(@, name)]
        ELSE d[p]]

canCreate(dir, name, max) ==
    /\ isDirectory(disk, dir)
    /\ ~exists(disk, join(dir, name))
    /\ nodeCount(disk) < max

\* The project root is created, empty.
MkRoot ==
    /\ ~exists(disk, Root)
    /\ disk' = [p \in {Root} |-> dirNode(TRUE, <<>>)]
    /\ outcome' = NoRun
    /\ UNCHANGED notFsVars

\* fs.mkdirSync of a new directory; a directory may be unreadable.
Mkdir(dir, name, readable, max) ==
    /\ canCreate(dir, name, max)
    /\ disk' = create(disk, dir, name, dirNode(readable, <<>>))
    /\ outcome' = NoRun
    /\ UNCHANGED notFsVars

\* fs.writeFileSync of a new file; a file may be unreadable.
WriteFile(dir, name, content, max) ==
    /\ canCreate(dir, name, max)
    /\ disk' = create(disk, dir, name, fileNode(content.readable, content.text))
    /\ outcome' = NoRun
    /\ UNCHANGED notFsVars

\* An entry that is neither a regular file nor a directory appears.
MkOther(dir, name, max) ==
    /\ canCreate(dir, name, max)
    /\ disk' = create(disk, dir, name, otherNode)
    /\ outcome' = NoRun
    /\ UNCHANGED notFsVars

\* analyzeCode(projectPath) runs to completion: it has no await.
AnalyzeCode ==
    /\ outcome = NoRun
    /\ outcome' = analyzeCode(disk, Root)
    /\ UNCHANGED <<disk, notFsVars>>

\* The steps over a universe of directory names and modes, file names and
\* contents, and names of other entries.
NextOver(dirNames, dirModes, fileNames, fileContents, otherNames, max) ==
    \/ MkRoot
    \/ \E dir \in DOMAIN disk, name \in dirNames, readable \in dirModes :
            Mkdir(dir, name, readable, max)
    \/ \E dir \in DOMAIN disk, name \in fileNames, content \in fileContents :
            WriteFile(dir, name, content, max)
    \/ \E dir \in DOMAIN disk, name \in otherNames : MkOther(dir, name, max)
    \/ AnalyzeCode

\* Projects that vary the file texts: source files with every sample text
\* or unreadable, in the root or in one readable subdirectory.
Next ==
    NextOver({PlainName}, {TRUE}, {TsName, TsxName}, contents(Texts),
             {JsName}, MaxNodes)

Spec == Init /\ [][Next]_vars

\* Projects that vary the tree: plain and hidden directories, readable or
\* not, files of every name with one text, and other entries.
NextTree ==
    NextOver({PlainName, DotName}, BOOLEAN,
             {TsName, TsxName, JsName, JsxName, TscName, DotName},
             {[readable |-> TRUE, text |-> SimpleText]}, {TsName},
             MaxTreeNodes)

SpecTree == Init /\ [][NextTree]_vars

\* The tokens a source text is written with.
SourceTokens == Tokens \ {"prose", "U+FFFD"}

\* The tokens the four expressions of calculateBasicComplexity match.
Constructs == {"if(", "for(", "while(", "switch("}

\* The text under edit grows by one token and its metrics are computed anew.
AppendToken(t) ==
    /\ Len(fileText) < MaxTextLen
    /\ fileText' = Append(fileText, t)
    /\ fileMetric' = metricsOf(fileText')
    /\ UNCHANGED <<fsVars, routeVars, postVars, pollVars>>

NextMetrics == \E t \in SourceTokens : AppendToken(t)

\* One file of every text of at most MaxTextLen tokens.
SpecMetrics == Init /\ [][NextMetrics]_vars

\* complex.ts of the test fixtures: one function, one for loop, three if
\* conditions (one of them an else if), eighteen lines.
ComplexText ==
    <<"fn(", "\n", "w", "\n", "for(", "\n", "if(", "\n", "w", "\n",
      "if(", "\n", "w", "\n", "w", "\n", "w", "\n", "w", "\n",
      "\n", "if(", "\n", "w", "\n", "w", "\n", "w", "\n", "w", "\n",
      "w", "\n", "w">>

SimpleFile == <<"s", "i", "m", "p", "l", "e", ".", "t", "s">>
ComplexFile == <<"c", "o", "m", "p", "l", "e", "x", ".", "t", "s">>
DuplicateFile == <<"d", "u", "p", "l", "i", "c", "a", "t", "e", ".", "t", "s">>
Duplicate2File ==
    <<"d", "u", "p", "l", "i", "c", "a", "t", "e", "2", ".", "t", "s">>
InvalidFile == <<"i", "n", "v", "a", "l", "i", "d", ".", "t", "s">>

\* The files the tests write into the sample repository.
sampleFiles ==
    {[name |-> SimpleFile, content |-> SimpleText],
     [name |-> ComplexFile, content |-> ComplexText],
     [name |-> DuplicateFile, content |-> HelperText],
     [name |-> Duplicate2File, content |-> HelperText]}

Fixtures == sampleFiles \cup {[name |-> InvalidFile, content |-> ProseText]}

\* The sample repository is made, the fixture files are written in any
\* order, and analyzeCode runs on what is there.
NextFixtures ==
    \/ MkRoot
    \/ \E f \in Fixtures :
            WriteFile(Root, f.name, [readable |-> TRUE, text |-> f.content],
                      Cardinality(Fixtures))
    \/ AnalyzeCode

SpecFixtures == Init /\ [][NextFixtures]_vars

\* The values of maintainability.score and duplication.percentage tried,
\* on both sides of the thresholds of generateRecommendations.
MaintainabilityScores == {0, 64, 65, 100}

DuplicationPercentages == {0, 15, 16, 100}

\* The issues lists of a maintainability detail tried.
IssueLists == {<<>>, <<"Low comment ratio", "Long function">>}

\* The file of the i-th maintainability detail.
detailFile(i) == <<<<"f", ToString(i), ".", "t", "s">>>>

\* The results are scored: the report is derived from them.
scored(results) ==
    /\ analysisResults' = results
    /\ \E sumBelowHalf \in BOOLEAN : report' = reportOf(results, sumBelowHalf)
    /\ UNCHANGED <<fsVars, metricVars, postVars, pollVars>>

RaiseComplexity ==
    /\ analysisResults.complexity.score < 100
    /\ scored([analysisResults EXCEPT !.complexity.score = @ + 1])

SetMaintainability(score) ==
    /\ score # analysisResults.maintainability.score
    /\ scored([analysisResults EXCEPT !.maintainability.score = score])

SetDuplication(percentage) ==
    /\ percentage # analysisResults.duplication.percentage
    /\ scored([analysisResults EXCEPT !.duplication.percentage = percentage])

AddDetail(issues) ==
    LET details == analysisResults.maintainability.details IN
    /\ Len(details) < MaxDetails
    /\ scored([analysisResults EXCEPT !.maintainability.details =
            Append(@, [file |-> detailFile(Len(details) + 1),
                       score |-> hundred,
                       issues |-> issues])])

NextRoute ==
    \/ RaiseComplexity
    \/ \E score \in MaintainabilityScores : SetMaintainability(score)
    \/ \E percentage \in DuplicationPercentages : SetDuplication(percentage)
    \/ \E issues \in IssueLists : AddDetail(issues)

\* Analysis results of every complexity score, with the maintainability
\* scores, duplication percentages and issues lists above.
SpecRoute == Init /\ [][NextRoute]_vars

\* The request returns a response.
respond(r, response) ==
    requests' = [requests EXCEPT ![r].pc = "done", ![r].response = response]

\* The request awaits updateProjectStatus(projectId, 'failed', message),
\* updates times in a row, and returns the response afterwards.
fails(r, did, updates, message, response) ==
    requests' = [requests EXCEPT ![r].pc = "updateProjectStatus",
                                 ![r].done = @ \cup did,
                                 ![r].updates = updates,
                                 ![r].message = message,
                                 ![r].after = response]

\* The request goes on to its next await.
goes(r, did, pc) ==
    requests' = [requests EXCEPT ![r].pc = pc, ![r].done = @ \cup did]

\* POST(request) is called and awaits request.json().
Post(r, body, authorization) ==
    /\ requests[r].pc = "idle"
    /\ requests' = [requests EXCEPT ![r].pc = "json", ![r].body = body,
                                    ![r].authorization = authorization]
    /\ UNCHANGED <<projects, dirs, fsVars, metricVars, routeVars,
                 pollVars>>

\* Validate without the check of the Authorization header.
validateWithoutHeader(r) ==
    LET body == requests[r].body
        missing == missingFields(body)
    IN
    /\ requests[r].pc = "json"
    /\ IF body.json = "invalid"
       THEN respond(r, errorResponse(400, "Invalid JSON in request body"))
       ELSE IF body.json = "null"
       THEN respond(r, errorResponse(500, "Analysis request failed"))
       ELSE IF missing # {}
       THEN IF body.projectId # Undefined
            THEN fails(r, {}, 1, "Missing required fields",
                       errorResponse(400, "Missing required fields"))
            ELSE respond(r, errorResponse(400, "Missing required fields"))
       ELSE goes(r, {}, "analyzing")
    /\ UNCHANGED <<projects, dirs, fsVars, metricVars, routeVars,
                 pollVars>>

\* request.json() settles; the fields are destructured and validated and
\* the Authorization header is checked, up to the next await.
Validate(r) ==
    LET body == requests[r].body
        missing == missingFields(body)
    IN
    /\ requests[r].pc = "json"
    /\ IF body.json = "invalid"
       THEN respond(r, errorResponse(400, "Invalid JSON in request body"))
       ELSE IF body.json = "null"
       THEN respond(r, errorResponse(500, "Analysis request failed"))
       ELSE IF missing # {}
       THEN IF body.projectId # Undefined
            THEN fails(r, {}, 1, "Missing required fields",
                       errorResponse(400, "Missing required fields"))
            ELSE respond(r, errorResponse(400, "Missing required fields"))
       ELSE IF ~startsWithBearer(requests[r].authorization)
       THEN respond(r, errorResponse(401, "Invalid authorization header"))
       ELSE goes(r, {}, "analyzing")
    /\ UNCHANGED <<projects, dirs, fsVars, metricVars, routeVars,
                 pollVars>>

\* supabase update({status: 'analyzing', error_message: null}) settles.
SetAnalyzing(r, updateError) ==
    LET projectId == requests[r].body.projectId IN
    /\ requests[r].pc = "analyzing"
    /\ IF updateError
       THEN /\ respond(r, errorResponse(500, "Failed to update project status"))
            /\ UNCHANGED projects
       ELSE /\ goes(r, {"analyzing"}, "mkdir")
            /\ projects' = [projects EXCEPT ![projectId].status = "analyzing",
                                ![projectId].error_message = Undefined]
    /\ UNCHANGED <<dirs, fsVars, metricVars, routeVars,
                 pollVars>>

\* The directory tmp exists once a request has found or made it.
tmpDirExists == \E r \in Requests : "tmp" \in requests[r].done

\* tmp is made if it is missing, the analysis directory is removed if it
\* exists and made anew, and git ls-remote is started. The mkdirSync of tmp
\* stands outside the inner try blocks: when it throws, the outer catch
\* answers. The rmSync or mkdirSync of the analysis directory may throw too.
MakeAnalysisDir(r, thrower) ==
    LET projectId == requests[r].body.projectId IN
    /\ requests[r].pc = "mkdir"
    /\ thrower = "tmpDir" => ~tmpDirExists
    /\ thrower = "rmSync" => dirs[projectId].exists
    /\ IF thrower = "tmpDir"
       THEN /\ respond(r, errorResponse(500, "Analysis request failed"))
            /\ UNCHANGED dirs
       ELSE IF thrower = "none"
       THEN /\ dirs' = [dirs EXCEPT ![projectId] =
                    [exists |-> TRUE, madeBy |-> r, git |-> FALSE]]
            /\ goes(r, {"tmp", "mkdir", "ls-remote"}, "ls-remote")
       ELSE /\ dirs' = IF thrower = "rmSync" THEN dirs
                       ELSE [dirs EXCEPT ![projectId] = NoDir]
            /\ fails(r, {"tmp"}, 1, "Failed to create analysis directory",
                     errorResponse(500, "Failed to create analysis directory"))
    /\ UNCHANGED <<projects, fsVars, metricVars, routeVars,
                 pollVars>>

\* git ls-remote settles: with output, with none, or with an error.
LsRemote(r, lsRemote) ==
    /\ requests[r].pc = "ls-remote"
    /\ IF lsRemote = "output"
       THEN goes(r, {"clone"}, "clone")
       ELSE fails(r, {}, 1, "Failed to access repository",
                  errorResponse(401, "Failed to access repository"))
    /\ UNCHANGED <<projects, dirs, fsVars, metricVars, routeVars,
                 pollVars>>

\* git clone exits: it fills the analysis directory when that is empty or
\* absent and the transfer succeeds, and fails otherwise.
Clone(r, transferred) ==
    LET projectId == requests[r].body.projectId IN
    /\ requests[r].pc = "clone"
    /\ IF transferred /\ ~dirs[projectId].git
       THEN /\ dirs' = [dirs EXCEPT ![projectId].exists = TRUE,
                                    ![projectId].git = TRUE]
            /\ goes(r, {}, "cloned")
       ELSE /\ fails(r, {}, 1, "git clone failed",
                     errorResponse(500, "Analysis failed"))
            /\ UNCHANGED dirs
    /\ UNCHANGED <<projects, fsVars, metricVars, routeVars,
                 pollVars>>

\* The clone is verified and analyzeCode(analysisDir) runs and settles.
Analyze(r, settled) ==
    LET projectId == requests[r].body.projectId IN
    /\ requests[r].pc = "cloned"
    /\ IF ~dirs[projectId].git
       THEN fails(r, {}, 1, "Repository was not cloned properly",
                  errorResponse(500, "Analysis failed"))
       ELSE IF settled = "resolved"
       THEN goes(r, {"analyzeCode"}, "completed")
       ELSE fails(r, {"analyzeCode"}, 2, "analyzeCode rejected",
                  errorResponse(500, "Analysis failed"))
    /\ UNCHANGED <<projects, dirs, fsVars, metricVars, routeVars,
                 pollVars>>

\* StoreResults that writes the status 'completed' and not the results.
storeStatusAlone(r, updateError) ==
    LET projectId == requests[r].body.projectId IN
    /\ requests[r].pc = "completed"
    /\ IF updateError
       THEN /\ fails(r, {}, 2, "Failed to update analysis results",
                     errorResponse(500, "Analysis failed"))
            /\ UNCHANGED projects
       ELSE /\ respond(r, completedResponse)
            /\ projects' = [projects EXCEPT ![projectId].status = "completed"]
    /\ UNCHANGED <<dirs, fsVars, metricVars, routeVars, pollVars>>

\* supabase update({status: 'completed', analysis_results, ...}) settles.
StoreResults(r, updateError) ==
    LET projectId == requests[r].body.projectId IN
    /\ requests[r].pc = "completed"
    /\ IF updateError
       THEN /\ fails(r, {}, 2, "Failed to update analysis results",
                     errorResponse(500, "Analysis failed"))
            /\ UNCHANGED projects
       ELSE /\ respond(r, completedResponse)
            /\ projects' = [projects EXCEPT ![projectId].status = "completed",
                                ![projectId].analysis_results = TRUE]
    /\ UNCHANGED <<dirs, fsVars, metricVars, routeVars,
                 pollVars>>

\* updateProjectStatus(projectId, 'failed', message) settles; an error of
\* the update is logged and swallowed.
UpdateProjectStatus(r, updateError) ==
    LET projectId == requests[r].body.projectId IN
    /\ requests[r].pc = "updateProjectStatus"
    /\ projects' = IF updateError THEN projects
                   ELSE [projects EXCEPT ![projectId].status = "failed",
                            ![projectId].error_message = requests[r].message]
    /\ IF requests[r].updates > 1
       THEN requests' = [requests EXCEPT ![r].updates = @ - 1]
       ELSE respond(r, requests[r].after)
    /\ UNCHANGED <<dirs, fsVars, metricVars, routeVars,
                 pollVars>>

\* The steps of POST, the database updates failing as updateErrors says.
NextPostOver(updateErrors) ==
    \/ \E r \in Requests, body \in Bodies, authorization \in Headers :
            Post(r, body, authorization)
    \/ \E r \in Requests : Validate(r)
    \/ \E r \in Requests, updateError \in updateErrors : SetAnalyzing(r, updateError)
    \/ \E r \in Requests, thrower \in {"none", "tmpDir", "rmSync", "mkdirSync"} :
            MakeAnalysisDir(r, thrower)
    \/ \E r \in Requests, lsRemote \in {"output", "empty", "error"} :
            LsRemote(r, lsRemote)
    \/ \E r \in Requests, transferred \in BOOLEAN : Clone(r, transferred)
    \/ \E r \in Requests, settled \in {"resolved", "rejected"} :
            Analyze(r, settled)
    \/ \E r \in Requests, updateError \in updateErrors : StoreResults(r, updateError)
    \/ \E r \in Requests, updateError \in updateErrors :
            UpdateProjectStatus(r, updateError)

NextPost == NextPostOver(BOOLEAN)

\* Two POST requests of every body and header, interleaved at their awaits.
SpecPost == Init /\ [][NextPost]_vars

\* The same with every database update succeeding.
NextPostReliable == NextPostOver({FALSE})

SpecPostReliable == Init /\ [][NextPostReliable]_vars

\* The await of the status read settles. An error takes the loop's
\* continue, back to the loop condition with attempts as it was; a missing
\* row throws; 'completed' and 'failed' break; any other status goes on to
\* the ten-second wait.
Select(read) ==
    /\ polling.pc = "select"
    /\ polling.reads < MaxReads
    /\ polling' =
        LET counted == [polling EXCEPT !.reads = @ + 1] IN
        IF read = "error" THEN counted
        ELSE IF read = "no row"
        THEN [counted EXCEPT !.pc = "catch",
                !.thrown = "Project not found during status check"]
        ELSE IF read \in {"completed", "failed"}
        THEN [counted EXCEPT !.pc = "done", !.seen = read]
        ELSE [counted EXCEPT !.pc = "wait", !.seen = read]
    /\ UNCHANGED <<fsVars, metricVars, routeVars, postVars>>

\* The ten-second wait ends: attempts++, then the loop condition, and past
\* the loop the throw of 'Analysis timed out'.
Wait ==
    /\ polling.pc = "wait"
    /\ polling' =
        IF polling.attempts + 1 < maxAttempts
        THEN [polling EXCEPT !.pc = "select", !.attempts = @ + 1]
        ELSE [polling EXCEPT !.pc = "catch", !.attempts = @ + 1,
                !.thrown = "Analysis timed out"]
    /\ UNCHANGED <<fsVars, metricVars, routeVars, postVars>>

\* The catch block: the project is marked 'failed', unless that update
\* fails, which is logged.
Catch(updateError) ==
    /\ polling.pc = "catch"
    /\ polling' = [polling EXCEPT !.pc = "done", !.marked = ~updateError]
    /\ UNCHANGED <<fsVars, metricVars, routeVars, postVars>>

NextPolling ==
    \/ \E read \in Reads : Select(read)
    \/ Wait
    \/ \E updateError \in BOOLEAN : Catch(updateError)

\* The polling loop over every sequence of read outcomes.
SpecPolling == Init /\ [][NextPolling]_vars

\* ------------------------------------------------------------------ claims

resolved == outcome.kind = "resolved"

rejected == outcome.kind = "rejected"

result == outcome.value

\* The files file discovery returns on the current disk.
discovered == getAllFiles(disk, Root, Extensions)

\* A rational [num, den] lies in [0, 100].
inRange(q) == q.den > 0 /\ 0 <= q.num /\ q.num <= 100 * q.den

\* C1: for a project with at least one eligible file, complexity.score,
\* maintainability.score, duplication.percentage, every per-file complexity
\* and maintainability value of both details arrays, and the overall score
\* computed from the result all lie in [0, 100].
C1_ScoresInRange ==
    (resolved /\ Len(discovered) >= 1) =>
        /\ result.complexity.score \in 0..100
        /\ result.maintainability.score \in 0..100
        /\ result.duplication.percentage \in 0..100
        /\ \A i \in 1..Len(result.complexity.details) :
              /\ inRange(result.complexity.details[i].complexity)
              /\ inRange(result.complexity.details[i].maintainability)
        /\ \A i \in 1..Len(result.maintainability.details) :
              inRange(result.maintainability.details[i].score)
        /\ \A sumBelowHalf \in BOOLEAN :
                calculateOverallScoreRoute(result, sumBelowHalf) \in 0..100

\* A result over several files, one of them at the cap of 100 (its density
\* of constructs is above one per line) and one with a fractional value.
C1_Witness ==
    /\ resolved
    /\ Len(result.complexity.details) >= 2
    /\ \E i \in 1..Len(discovered) :
          /\ disk[discovered[i]].text = BranchText
          /\ result.complexity.details[i].complexity = [num |-> 100, den |-> 1]
    /\ \E i \in 1..Len(discovered) :
          result.complexity.details[i].complexity.den = 3

\* C2: analyzeCode on an existing directory without any eligible file is
\* rejected with the empty-project error and returns no result record.
C2_EmptyProjectRejected ==
    (outcome # NoRun /\ exists(disk, Root) /\ discovered = <<>>) =>
        (rejected /\ outcome.error = "EmptyProjectError")

\* C3: analyzeCode on a root path that does not exist is rejected with
\* NotFoundError and returns no result record.
C3_MissingRootRejected ==
    (outcome # NoRun /\ ~exists(disk, Root)) =>
        (rejected /\ outcome.error = "NotFoundError")

\* C4: on a project with eligible files that are all readable, the result
\* has an overview record, and overview.totalFiles equals the lengths of
\* both details arrays and the number of discovered files.
C4_OverviewTotalFiles ==
    (outcome # NoRun
        /\ Len(discovered) >= 1
        /\ \A i \in 1..Len(discovered) : disk[discovered[i]].readable) =>
        /\ resolved
        /\ Len(result.complexity.details) = Len(discovered)
        /\ Len(result.maintainability.details) = Len(discovered)
        /\ "overview" \in DOMAIN result
        /\ result.overview.totalFiles = Len(discovered)

\* Two analysed files hold the same function body, and no third one does.
sameBody(f, g) ==
    /\ f # g
    /\ disk[f].text = disk[g].text
    /\ count(disk[f].text, "fn(") >= 1
    /\ \A i \in 1..Len(discovered) :
          disk[discovered[i]].text = disk[f].text => discovered[i] \in {f, g}

\* C5: when two distinct analysed files contain the same function body,
\* exactly one duplication instance is reported, its files are those two
\* paths, its lines the line count of the shared fragment, and
\* duplication.percentage is above 0.
C5_DuplicateReported ==
    resolved =>
        \A i, j \in 1..Len(discovered) :
            (i < j /\ sameBody(discovered[i], discovered[j])) =>
                /\ result.duplication.percentage > 0
                /\ Cardinality({k \in 1..Len(result.duplication.instances) :
                      {result.duplication.instances[k].files[n] :
                          n \in 1..Len(result.duplication.instances[k].files)}
                      = {discovered[i], discovered[j]}}) = 1
                /\ \A k \in 1..Len(result.duplication.instances) :
                      result.duplication.instances[k].lines
                          = lineCount(disk[discovered[i]].text)

\* The discovered files that can be read, in discovery order.
readableFiles == SelectSeq(discovered, LAMBDA f : disk[f].readable)

\* C6: an error confined to one file does not abort the run: with a
\* discovered file that cannot be read, analyzeCode still resolves, with the
\* result built from the remaining files only.
C6_UnreadableFileSkipped ==
    (outcome # NoRun /\ \E i \in 1..Len(discovered) : ~disk[discovered[i]].readable) =>
        /\ resolved
        /\ result = resultOf(fileAnalysesOf(disk, readableFiles))

\* Number of entries of complexity.details analyzeCode reports for disk d,
\* -1 when it is rejected.
detailsCount(d) ==
    LET o == analyzeCode(d, Root) IN
    IF o.kind = "resolved" THEN Len(o.value.complexity.details) ELSE -1

\* The step adds one readable .ts file whose text is not source code to a
\* project on which analyzeCode resolves with at least one file.
addsInvalidTs ==
    /\ detailsCount(disk) >= 1
    /\ \E p \in DOMAIN disk' \ DOMAIN disk :
          /\ DOMAIN disk' = DOMAIN disk \cup {p}
          /\ p # Root
          /\ disk'[p].kind = "file"
          /\ disk'[p].readable
          /\ extname(p[Len(p)]) = <<".", "t", "s">>
          /\ ~isValidSource(disk'[p].text)

\* C7: adding a .ts file whose content is not valid source text leaves the
\* number of entries of complexity.details unchanged.
C7_InvalidFileExcluded ==
    [][addsInvalidTs => detailsCount(disk') = detailsCount(disk)]_vars

\* The files of complexity.details and of maintainability.details, in order.
complexityFiles ==
    [i \in 1..Len(result.complexity.details) |->
        result.complexity.details[i].file]

maintainabilityFiles ==
    [i \in 1..Len(result.maintainability.details) |->
        result.maintainability.details[i].file]

\* The relative path of a node as one string: "/" before every name.
RECURSIVE relativePath(_)
relativePath(path) ==
    IF path = <<>> THEN <<>>
    ELSE <<"/">> \o Head(path) \o relativePath(Tail(path))

\* s comes strictly before t in lexicographic order of character codes.
RECURSIVE lexLess(_, _)
lexLess(s, t) ==
    IF t = <<>> THEN FALSE
    ELSE IF s = <<>> THEN TRUE
    ELSE IF Code(Head(s)) # Code(Head(t)) THEN Code(Head(s)) < Code(Head(t))
    ELSE lexLess(Tail(s), Tail(t))

\* A sequence of paths is in strict lexicographic order of relative path.
inPathOrder(files) ==
    \A i, j \in 1..Len(files) :
        i < j => lexLess(relativePath(files[i]), relativePath(files[j]))

\* C8: whatever order the file system lists directory entries in, the
\* discovered files, and so both details arrays, are in lexicographic order
\* of full relative path.
C8_LexicographicOrder ==
    resolved =>
        /\ inPathOrder(discovered)
        /\ inPathOrder(complexityFiles)
        /\ inPathOrder(maintainabilityFiles)

\* Every directory of the disk lists its entries in order of name.
listingsSorted ==
    \A dir \in DOMAIN disk :
        \A i, j \in 1..Len(disk[dir].entries) :
            i < j => lexLess(disk[dir].entries[i], disk[dir].entries[j])

\* C8 for the file systems that list every directory in order of name: the
\* details arrays are in lexicographic order of full relative path.
C8_OrderWhenListingsSorted ==
    (resolved /\ listingsSorted) => inPathOrder(complexityFiles)

\* A path lies below a directory whose name begins with ".".
underHidden(path) ==
    \E k \in 1..(Len(path) - 1) : startsWith(path[k], ".")

\* C9: no file below a directory whose name begins with ".", at any depth,
\* is in the discovered list or in a details array.
C9_HiddenPruned ==
    /\ \A i \in 1..Len(discovered) : ~underHidden(discovered[i])
    /\ resolved =>
          /\ \A i \in 1..Len(complexityFiles) : ~underHidden(complexityFiles[i])
          /\ \A i \in 1..Len(maintainabilityFiles) :
                ~underHidden(maintainabilityFiles[i])

\* analyzeCode has run on a disk with an eligible file two levels below a
\* hidden directory of the root.
C9_Witness ==
    /\ resolved
    /\ \E p \in DOMAIN disk :
          /\ Len(p) = 3
          /\ startsWith(p[1], ".")
          /\ ~startsWith(p[2], ".")
          /\ disk[p].kind = "file"
          /\ extname(p[3]) \in Extensions

\* A name ends with the extension ext and has a character before it.
endsWith(name, ext) ==
    /\ Len(name) > Len(ext)
    /\ SubSeq(name, Len(name) - Len(ext) + 1, Len(name)) = ext

\* Every directory above the node, the root included, exists and can be
\* read.
inReadableDirectories(path) ==
    \A k \in 0..(Len(path) - 1) :
        LET dir == SubSeq(path, 1, k) IN
        isDirectory(disk, dir) /\ disk[dir].readable

\* The regular files with a name in .ts, .tsx, .js or .jsx that lie in
\* readable directories outside the directories named ".*".
eligibleFiles ==
    {p \in DOMAIN disk \ {Root} :
        /\ disk[p].kind = "file"
        /\ \/ endsWith(p[Len(p)], <<".", "t", "s">>)
           \/ endsWith(p[Len(p)], <<".", "t", "s", "x">>)
           \/ endsWith(p[Len(p)], <<".", "j", "s">>)
           \/ endsWith(p[Len(p)], <<".", "j", "s", "x">>)
        /\ ~underHidden(p)
        /\ inReadableDirectories(p)}

\* C10: the discovered list, and with it the details arrays, holds exactly
\* the eligible files, each once.
C10_ExactlyEligible ==
    /\ {discovered[i] : i \in 1..Len(discovered)} = eligibleFiles
    /\ Len(discovered) = Cardinality(eligibleFiles)
    /\ resolved =>
          /\ complexityFiles = discovered
          /\ maintainabilityFiles = discovered

\* analyzeCode has listed a file of a subdirectory on a disk that also holds
\* a regular file that is not eligible and an entry in an unreadable or
\* hidden directory.
C10_Witness ==
    /\ resolved
    /\ \E i \in 1..Len(complexityFiles) : Len(complexityFiles[i]) = 2
    /\ \E p \in DOMAIN disk \ {Root} :
          disk[p].kind = "file" /\ p \notin eligibleFiles

\* Positions of text that hold one of the tokens ts.
positions(text, ts) == {i \in 1..Len(text) : text[i] \in ts}

\* Rational comparison: a < b, a = b.
less(a, b) == a.num * b.den < b.num * a.den

equal(a, b) == a.num * b.den = b.num * a.den

\* C11: a file's complexity is min(100, (1 + number of if(, for(, while( and
\* switch( constructs) / number of lines * 100), the number of lines being
\* one more than the number of newlines.
C11_ComplexityFormula ==
    LET constructs == Cardinality(positions(fileText, Constructs))
        lines == Cardinality(positions(fileText, {"\n"})) + 1
        value == [num |-> (1 + constructs) * 100, den |-> lines]
        cap == [num |-> 100, den |-> 1]
    IN /\ fileMetric.lines = lines
       /\ IF less(cap, value)
          THEN equal(fileMetric.complexity, cap)
          ELSE equal(fileMetric.complexity, value)

\* One construct on four lines: below the cap, at 50.
C11_Witness ==
    /\ Cardinality(positions(fileText, Constructs)) = 1
    /\ Cardinality(positions(fileText, {"\n"})) = 3
    /\ equal(fileMetric.complexity, [num |-> 50, den |-> 1])

\* C12: the empty text gets complexity 0 and maintainability 0, and no
\* metric of any text divides by zero.
C12_EmptyTextZero ==
    /\ fileMetric.complexity.den > 0
    /\ fileMetric.maintainability.den > 0
    /\ fileText = <<>> =>
            /\ equal(fileMetric.complexity, [num |-> 0, den |-> 1])
            /\ equal(fileMetric.maintainability, [num |-> 0, den |-> 1])

\* The text before its last token.
front(text) == SubSeq(text, 1, Len(text) - 1)

\* C13: with the number of lines fixed, one more if(, for(, while( or switch(
\* makes the complexity strictly greater while the smaller value is below
\* 100, and leaves it at 100 once it is there.
C13_OneMoreConstruct ==
    [][(fileText' = Append(fileText, fileText'[Len(fileText')])
            /\ fileText'[Len(fileText')] \in Constructs) =>
        /\ fileMetric'.lines = fileMetric.lines
        /\ IF less(fileMetric.complexity, hundred)
           THEN less(fileMetric.complexity, fileMetric'.complexity)
           ELSE equal(fileMetric'.complexity, hundred)]_vars

\* A construct was added to a text below the cap, and the value rose.
C13_Witness ==
    /\ fileText # <<>>
    /\ fileText[Len(fileText)] \in Constructs
    /\ less(calculateBasicComplexity(front(fileText)), hundred)
    /\ less(calculateBasicComplexity(front(fileText)), fileMetric.complexity)

\* A construct was added to a text at the cap, and the value stayed.
C13_WitnessAtCap ==
    /\ fileText # <<>>
    /\ fileText[Len(fileText)] \in Constructs
    /\ equal(calculateBasicComplexity(front(fileText)), hundred)
    /\ equal(fileMetric.complexity, hundred)

\* The project holds exactly the files of the four-file scenario.
fourFileScenario ==
    /\ exists(disk, Root)
    /\ DOMAIN disk \ {Root} = {join(Root, f.name) : f \in sampleFiles}

\* The complexity analyzeCode reported for the file of that name.
complexityOf(name) ==
    LET details == result.complexity.details
        i == CHOOSE i \in 1..Len(details) : details[i].file = join(Root, name)
    IN details[i].complexity

\* C14: in the four-file scenario the complexity of complex.ts is greater
\* than 50 and the highest of the four, and that of simple.ts is less than 50.
C14_ComplexRankedHighest ==
    (resolved /\ fourFileScenario) =>
        /\ less([num |-> 50, den |-> 1], complexityOf(ComplexFile))
        /\ \A name \in {SimpleFile, DuplicateFile, Duplicate2File} :
                less(complexityOf(name), complexityOf(ComplexFile))
        /\ less(complexityOf(SimpleFile), [num |-> 50, den |-> 1])

\* What the code reports in the four-file scenario.
C14_Reported ==
    (resolved /\ fourFileScenario) =>
        /\ equal(complexityOf(ComplexFile), [num |-> 500, den |-> 18])
        /\ equal(complexityOf(SimpleFile), [num |-> 25, den |-> 1])
        /\ equal(complexityOf(DuplicateFile), [num |-> 100, den |-> 3])
        /\ equal(complexityOf(Duplicate2File), [num |-> 100, den |-> 3])

\* The product of the denominators of a sequence of rationals.
RECURSIVE commonDen(_)
commonDen(values) ==
    IF values = <<>> THEN 1 ELSE Head(values).den * commonDen(Tail(values))

\* The sum of a sequence of rationals as a count of 1/D, D a multiple of
\* every denominator.
RECURSIVE totalOver(_, _)
totalOver(values, D) ==
    IF values = <<>> THEN 0
    ELSE Head(values).num * (D \div Head(values).den)
            + totalOver(Tail(values), D)

distance(a, b) == IF a >= b THEN a - b ELSE b - a

\* s is an integer nearest to the arithmetic mean of values, and 0 when
\* there are none.
isRoundedMean(s, values) ==
    LET n == Len(values)
        D == commonDen(values)
    IN IF n = 0 THEN s = 0
       ELSE s \in Int /\ 2 * distance(totalOver(values, D), s * n * D) <= n * D

perFileComplexity ==
    [i \in 1..Len(result.complexity.details) |->
        result.complexity.details[i].complexity]

perFileMaintainability ==
    [i \in 1..Len(result.maintainability.details) |->
        result.maintainability.details[i].score]

\* C15: complexity.score is the arithmetic mean of the per-file complexity
\* values rounded to the nearest integer, maintainability.score is the same
\* over the per-file maintainability values, and each is 0 when the project
\* has no files.
C15_ScoresAreRoundedMeans ==
    resolved =>
        /\ isRoundedMean(result.complexity.score, perFileComplexity)
        /\ isRoundedMean(result.maintainability.score, perFileMaintainability)

\* Several files whose mean complexity is not an integer.
C15_Witness ==
    /\ resolved
    /\ Len(perFileComplexity) >= 2
    /\ LET D == commonDen(perFileComplexity) IN
        totalOver(perFileComplexity, D) % (Len(perFileComplexity) * D) # 0

\* A project without files, scored 0.
C15_WitnessNoFiles ==
    /\ resolved
    /\ Len(perFileComplexity) = 0
    /\ result.complexity.score = 0
    /\ result.maintainability.score = 0

complexityScore == analysisResults.complexity.score

maintainabilityScore == analysisResults.maintainability.score

duplicationPercentage == analysisResults.duplication.percentage

\* Ten times complexity.score * 0.3 + maintainability.score * 0.4 +
\* (100 - duplication.percentage) * 0.3, the weights taken exactly.
weightedTenths ==
    3 * complexityScore + 4 * maintainabilityScore
        + 3 * (100 - duplicationPercentage)

\* The overall score is an integer nearest to the weighted sum.
isRoundedWeightedSum ==
    /\ report.overallScore \in Int
    /\ distance(10 * report.overallScore, weightedTenths) <= 5

\* Only complexity.score changes in the step, and so on.
onlyComplexityChanges ==
    /\ maintainabilityScore' = maintainabilityScore
    /\ duplicationPercentage' = duplicationPercentage

onlyMaintainabilityChanges ==
    /\ complexityScore' = complexityScore
    /\ duplicationPercentage' = duplicationPercentage

onlyDuplicationChanges ==
    /\ complexityScore' = complexityScore
    /\ maintainabilityScore' = maintainabilityScore

\* C16: the overall score is complexity.score * 0.3 + maintainability.score
\* * 0.4 + (100 - duplication.percentage) * 0.3 rounded to an integer; it does
\* not fall when complexity.score or maintainability.score rises and does
\* not rise when duplication.percentage rises.
C16_OverallScore ==
    /\ isRoundedWeightedSum
    /\ [][/\ isRoundedWeightedSum'
          /\ (onlyComplexityChanges /\ complexityScore' > complexityScore)
                => report'.overallScore >= report.overallScore
          /\ (onlyMaintainabilityChanges
                /\ maintainabilityScore' > maintainabilityScore)
                => report'.overallScore >= report.overallScore
          /\ (onlyDuplicationChanges
                /\ duplicationPercentage' > duplicationPercentage)
                => report'.overallScore <= report.overallScore]_vars

\* A weighted sum with a fraction above a half, rounded up, of three
\* positive inputs.
C16_Witness ==
    /\ weightedTenths % 10 \in 6..9
    /\ report.overallScore = weightedTenths \div 10 + 1
    /\ complexityScore > 0
    /\ maintainabilityScore > 0
    /\ duplicationPercentage > 0

\* C17: the health status is 'Excellent' for an overall score of 80 or more,
\* 'Good' from 70 to below 80, 'Fair' from 50 to below 70 and 'Needs
\* Improvement' below 50, one label for every score.
C17_HealthBands ==
    LET score == report.overallScore
        status == report.healthStatus
    IN /\ status \in {"Excellent", "Good", "Fair", "Needs Improvement"}
       /\ status = "Excellent" <=> score >= 80
       /\ status = "Good" <=> (70 <= score /\ score < 80)
       /\ status = "Fair" <=> (50 <= score /\ score < 70)
       /\ status = "Needs Improvement" <=> score < 50

\* The lower bound of the highest band.
C17_Witness == report.overallScore = 80 /\ report.healthStatus = "Excellent"

C17_WitnessGood == report.overallScore = 70 /\ report.healthStatus = "Good"

C17_WitnessFair == report.overallScore = 50 /\ report.healthStatus = "Fair"

C17_WitnessBelow ==
    report.overallScore = 49 /\ report.healthStatus = "Needs Improvement"

details == analysisResults.maintainability.details

\* The details that have a non-empty issues list, and the first three of them.
flagged == {i \in 1..Len(details) : details[i].issues # <<>>}

cited == {i \in flagged : Cardinality({j \in flagged : j < i}) < 3}

\* Number of general rules that match.
matching ==
    (IF complexityScore > 70 THEN 1 ELSE 0)
        + (IF maintainabilityScore < 65 THEN 1 ELSE 0)
        + (IF duplicationPercentage > 15 THEN 1 ELSE 0)

\* Position of advice in the recommendations, 0 when it is not there.
positionOf(advice) ==
    LET r == report.recommendations IN
    IF \E i \in 1..Len(r) : r[i] = advice
    THEN CHOOSE i \in 1..Len(r) : r[i] = advice
    ELSE 0

\* C18: the recommendations are, in this order, the complexity advice iff
\* complexity.score > 70, the maintainability advice iff
\* maintainability.score < 65, the duplication advice iff
\* duplication.percentage > 15, then one entry for each of the first three
\* details with a non-empty issues list, citing the file and its first issue;
\* nothing else, so none when no rule matches and never more than 6.
C18_Recommendations ==
    LET r == report.recommendations IN
    /\ Len(r) = matching + Cardinality(cited)
    /\ Len(r) <= 6
    /\ positionOf(ComplexityAdvice) = (IF complexityScore > 70 THEN 1 ELSE 0)
    /\ positionOf(MaintainabilityAdvice) =
            (IF maintainabilityScore >= 65 THEN 0
             ELSE IF complexityScore > 70 THEN 2 ELSE 1)
    /\ positionOf(DuplicationAdvice) =
            (IF duplicationPercentage > 15 THEN matching ELSE 0)
    /\ \A i \in cited :
            LET entry == r[matching + Cardinality({j \in cited : j <= i})]
            IN /\ entry[1] = "Improve maintainability in"
               /\ entry[2] = details[i].file
               /\ entry[3] = details[i].issues[1]

\* All three general rules match and three of four details have issues,
\* the second having none: six recommendations.
C18_Witness ==
    /\ matching = 3
    /\ flagged = {1, 3, 4}
    /\ Len(report.recommendations) = 6

\* More flagged details than are cited.
C18_WitnessSliced ==
    /\ Cardinality(flagged) > 3
    /\ Cardinality(cited) = 3

\* No rule matches and nothing is recommended.
C18_WitnessEmpty ==
    /\ matching = 0
    /\ flagged = {}
    /\ Len(details) > 0
    /\ report.recommendations = <<>>

answered(r) == requests[r].pc = "done"

\* The body is JSON and lacks one of the four required fields.
lacksField(body) ==
    body.json = "null" \/ (body.json = "object" /\ missingFields(body) # {})

\* The body is an object that carries the four required fields.
carriesFields(body) == body.json = "object" /\ missingFields(body) = {}

\* C19: a POST whose JSON body lacks one of projectId, repoUrl, provider and
\* accessToken is answered with HTTP 400 and the error 'Missing required
\* fields', and has set no project to 'analyzing', made no directory and run
\* no git command.
C19_MissingFieldsRejected ==
    \A r \in Requests :
        (answered(r) /\ lacksField(requests[r].body)) =>
            /\ requests[r].response.status = 400
            /\ requests[r].response.error = "Missing required fields"
            /\ requests[r].done = {}

\* What holds of C19: an object that lacks a field is answered with 400,
\* and no request whose body lacks a field gets as far as the status update,
\* the directory or git.
C19_ObjectsRejected ==
    \A r \in Requests :
        /\ lacksField(requests[r].body) => requests[r].done = {}
        /\ (answered(r) /\ lacksField(requests[r].body)
                /\ requests[r].body.json = "object") =>
            /\ requests[r].response.status = 400
            /\ requests[r].response.error = "Missing required fields"

\* C20: a POST whose body carries projectId, repoUrl, provider and
\* accessToken is answered with HTTP 200 and a body whose status is
\* 'analyzing'.
C20_ValidRequestAccepted ==
    \A r \in Requests :
        (answered(r) /\ carriesFields(requests[r].body)) =>
            /\ requests[r].response.status = 200
            /\ requests[r].response.bodyStatus = "analyzing"

\* What the code does for C20: no response ever has the status 'analyzing',
\* and 200 is answered only with a Bearer header and with 'completed'.
C20_Responses ==
    \A r \in Requests :
        /\ requests[r].response.bodyStatus # "analyzing"
        /\ requests[r].response.status = 200 =>
            /\ startsWithBearer(requests[r].authorization)
            /\ requests[r].response.bodyStatus = "completed"

projectOf(r) == requests[r].body.projectId

\* C21: once a POST request that made the directory tmp/analysis-<projectId>
\* has returned its response, that directory no longer exists.
C21_WorkingCopyDeleted ==
    \A r \in Requests :
        (answered(r) /\ "mkdir" \in requests[r].done) =>
            ~dirs[projectOf(r)].exists

\* What the code does for C21: no step of POST removes an analysis directory
\* except to make it anew, so once made it exists.
C21_DirectoryKept ==
    [][\A id \in ProjectIds : dirs[id].exists => dirs'[id].exists
            \/ \E r \in Requests :
                    /\ requests[r].pc = "mkdir"
                    /\ requests'[r].pc = "updateProjectStatus"]_vars

\* The request has git clone running into its analysis directory, or is
\* about to verify and analyse the clone.
working(r) == requests[r].pc \in {"clone", "cloned"}

\* C22: the analysis directory a request is cloning into or analysing is the
\* one that request made: no other request has removed it or made it anew.
C22_WorkingDirectoryPrivate ==
    \A r \in Requests :
        working(r) =>
            /\ dirs[projectOf(r)].exists
            /\ dirs[projectOf(r)].madeBy = r

\* What holds of C22: the directory of a working request is taken from it
\* only by a request for the same projectId.
C22_DifferentProjects ==
    \A r \in Requests :
        (working(r) /\ dirs[projectOf(r)].madeBy # r) =>
            \E other \in Requests \ {r} :
                /\ projectOf(other) = projectOf(r)
                /\ "analyzing" \in requests[other].done

\* The step in which request r returns its response.
returns(r) == requests[r].pc # "done" /\ requests'[r].pc = "done"

\* C23: when a request that has set its project to 'analyzing' returns its
\* response, the project's status is 'completed' or 'failed', the database
\* updates succeeding.
C23_NeverLeftAnalyzing ==
    [][\A r \in Requests :
        (returns(r) /\ "analyzing" \in requests[r].done) =>
            projects'[projectOf(r)].status \in {"completed", "failed"}]_vars

\* What holds of C23: the status is 'completed' or 'failed' at every
\* response but the one of the outer catch.
C23_BesidesOuterCatch ==
    [][\A r \in Requests :
        (returns(r) /\ "analyzing" \in requests[r].done
                /\ requests'[r].response.error # "Analysis request failed") =>
            projects'[projectOf(r)].status \in {"completed", "failed"}]_vars

\* The step is one of request r.
steps(r) == requests'[r] # requests[r]

\* C24: a request without an Authorization header that starts with 'Bearer '
\* writes to no project row.
C24_NoWriteWithoutBearer ==
    [][\A r \in Requests :
        (steps(r) /\ ~startsWithBearer(requests'[r].authorization)) =>
            projects' = projects]_vars

\* What holds of C24: such a request writes nothing but 'failed' with the
\* message of the missing fields, to the project its body names, and gets no
\* further than the validation.
C24_OnlyMissingFieldsWritten ==
    [][\A r \in Requests :
        (steps(r) /\ ~startsWithBearer(requests'[r].authorization)) =>
            /\ requests'[r].done = {}
            /\ \A id \in ProjectIds :
                    projects'[id] # projects[id] =>
                        /\ id = projectOf(r)
                        /\ projects'[id].status = "failed"
                        /\ projects'[id].error_message
                                = "Missing required fields"
                        /\ projects'[id].analysis_results
                                = projects[id].analysis_results]_vars

\* C25: the polling loop makes at most 30 status reads, whatever the reads
\* yield.
C25_AtMostThirtyReads == polling.reads <= maxAttempts

\* What holds of C25: reads that yield no error number at most 30; the loop
\* stops at the first 'completed' or 'failed'; after 30 waits it throws
\* 'Analysis timed out'; and a throw is followed by the catch block, which
\* marks the project 'failed'.
C25_BesidesErrors ==
    /\ polling.attempts <= maxAttempts
    /\ polling.seen \in {"completed", "failed"} =>
            polling.pc = "done" /\ polling.thrown = Undefined
    /\ polling.thrown = "Analysis timed out" <=>
            polling.attempts = maxAttempts
    /\ polling.marked => polling.thrown # Undefined /\ polling.pc = "done"
    /\ polling.pc = "done" =>
            \/ polling.seen \in {"completed", "failed"}
            \/ polling.thrown # Undefined

\* A read that yields an error does not count as an attempt.
C25_ErrorNotCounted ==
    [][(polling.pc = "select" /\ polling'.pc = "select")
            => polling'.attempts = polling.attempts
                /\ polling'.reads = polling.reads + 1]_vars

\* What request r has done so far is in the order of the handler.
inOrder(r) ==
    LET did == requests[r].done IN
    /\ did # {} =>
            /\ carriesFields(requests[r].body)
            /\ startsWithBearer(requests[r].authorization)
            /\ "analyzing" \in did
    /\ "mkdir" \in did => "tmp" \in did
    /\ "ls-remote" \in did => "mkdir" \in did
    /\ "clone" \in did => "ls-remote" \in did
    /\ "analyzeCode" \in did => "clone" \in did

\* The step of request r that starts git clone follows git ls-remote with
\* output; the step that calls analyzeCode finds the .git directory; a
\* request that has failed does nothing more than update the status and
\* answer; and ls-remote without output is answered with 401, the status
\* 'failed', and no clone.
stepsInOrder(r) ==
    LET did == requests[r].done
        does == requests'[r].done \ did
    IN
    /\ "clone" \in does => requests[r].pc = "ls-remote"
    /\ (requests[r].pc = "ls-remote" /\ steps(r)) =>
            \/ "clone" \in does /\ requests'[r].pc = "clone"
            \/ /\ does = {}
               /\ requests'[r].pc = "updateProjectStatus"
               /\ requests'[r].after.status = 401
    /\ "analyzeCode" \in does =>
            requests[r].pc = "cloned" /\ dirs[projectOf(r)].git
    /\ requests[r].pc \in {"updateProjectStatus", "done"} => does = {}
    /\ (returns(r) /\ requests'[r].response.status = 401
            /\ "ls-remote" \in did) =>
            /\ "clone" \notin requests'[r].done
            /\ projects'[projectOf(r)].status = "failed"

C26_WitnessNoAccess ==
    \E r \in Requests :
        /\ answered(r)
        /\ requests[r].response = errorResponse(401, "Failed to access repository")
        /\ requests[r].done = {"analyzing", "tmp", "mkdir", "ls-remote"}
        /\ projects[projectOf(r)].status = "failed"

\* No row has the status 'completed' without analysis results.
completedWithResults ==
    \A id \in ProjectIds :
        projects[id].status = "completed" => projects[id].analysis_results

\* The update of request r that stores the results has failed.
storeFailed(r) == requests[r].message = "Failed to update analysis results"

C27_WitnessStored ==
    \E r \in Requests :
        /\ requests[r].response = completedResponse
        /\ projects[projectOf(r)].status = "completed"
        /\ projects[projectOf(r)].analysis_results

unreadableSubdirectories ==
    {dir \in DOMAIN disk \ {Root} :
        /\ isDirectory(disk, dir)
        /\ ~disk[dir].readable
        /\ ~underHidden(dir)
        /\ ~startsWith(dir[Len(dir)], ".")
        /\ inReadableDirectories(dir)}

\* Path p lies below directory dir.
below(p, dir) == Len(p) > Len(dir) /\ SubSeq(p, 1, Len(dir)) = dir

\* C29: when the walk meets a subdirectory it cannot read, that directory
\* yields no file and nothing else is lost: the discovered list still holds
\* every eligible file of the readable directories, and a run of
\* analyzeCode whose files can be read resolves with a result for them.
C29_UnreadableSkipped ==
    \A dir \in unreadableSubdirectories :
        /\ getAllFiles(disk, dir, Extensions) = <<>>
        /\ \A i \in 1..Len(discovered) : ~below(discovered[i], dir)
        /\ \A p \in eligibleFiles : \E i \in 1..Len(discovered) : discovered[i] = p
        /\ (outcome # NoRun /\ \A i \in 1..Len(discovered) :
                                    disk[discovered[i]].readable) =>
                /\ resolved
                /\ complexityFiles = discovered
                /\ maintainabilityFiles = discovered

\* analyzeCode has resolved with the file of the root on a disk whose root
\* also holds a subdirectory that cannot be read.
C29_Witness ==
    /\ resolved
    /\ unreadableSubdirectories # {}
    /\ Len(complexityFiles) = 1
    /\ complexityFiles = discovered

\* analyzeCode has resolved on a disk with a source file inside a
\* subdirectory that cannot be read: the file is not listed.
C29_WitnessFileInside ==
    /\ resolved
    /\ \E dir \in unreadableSubdirectories : \E p \in DOMAIN disk :
          /\ below(p, dir)
          /\ disk[p].kind = "file"
          /\ extname(p[Len(p)]) \in Extensions
    /\ discovered = <<>>

C30_WitnessNone ==
    /\ resolved
    /\ Len(result.maintainability.details) >= 1
    /\ generateRecommendations(result) = <<>>

====
